---------------------------- MODULE Spec2Model ----------------------------
(***************************************************************************)
(* Model of backend_cpp/src/main.cpp: the one-shot startup sequence of the *)
(* PENS-KAIT 2026 C++ backend.                                             *)
(*                                                                         *)
(* main() is a straight-line program: two lines on std::cout, then a try   *)
(* block (camera acquisition, the isOpened check, the initialization       *)
(* banner, the frame declaration, a loop whose body is a single break),    *)
(* a handler for std::exception that reports and returns 1, and return 0.  *)
(*                                                                         *)
(* Two independent executions of the binary (Runs) are modelled side by    *)
(* side, each with its own environment, so that statements comparing two   *)
(* runs are state predicates.  Every variable is a function of the run.    *)
(*                                                                         *)
(* What the program cannot decide is drawn nondeterministically: the       *)
(* CV_VERSION the binary was compiled against, whether VideoCapture(0)     *)
(* opens the device, and whether a statement of the try block throws a     *)
(* std::exception (all the library calls made there throw only types       *)
(* derived from std::exception) and with which what() text.                *)
(***************************************************************************)
EXTENDS Integers, Sequences, FiniteSets, TLC

\* Number of distinct CV_VERSION values and of distinct what() texts considered.
NumVersions == 2
NumWhats == 2

\* The two executions compared with each other.
Runs == {1, 2}
Versions == 1..NumVersions
Whats == 1..NumWhats

VARIABLES
    pc,       \* pc[r]: the statement of main() run r executes next
    version,  \* version[r]: CV_VERSION compiled into the binary of run r
    out,      \* out[r]: lines written to std::cout, in order
    err,      \* err[r]: lines written to std::cerr, in order
    exit,     \* exit[r]: <<>> while running, <<status>> once main returned
    camera,   \* camera[r]: "untried", "opened" or "failed" (cap.isOpened())
    held,     \* held[r]: the capture device is open in run r
    exc,      \* exc[r]: <<>> or <<[at, what]>>, the exception in flight / caught
    trace     \* trace[r]: history of the statements executed, in order

vars == <<pc, version, out, err, exit, camera, held, exc, trace>>

----------------------------------------------------------------------------
(* Helpers *)

Range(s) == {s[i] : i \in 1..Len(s)}

Count(s, x) == Cardinality({i \in 1..Len(s) : s[i] = x})

\* Index of the first occurrence of x in s, 0 when absent.
IndexOf(s, x) ==
    IF x \in Range(s) THEN CHOOSE i \in 1..Len(s) : s[i] = x /\ \A j \in 1..(i-1) : s[j] # x
    ELSE 0

\* A line of output: the string literal of the source and the value inserted
\* after it (<<>> when the statement inserts nothing but the literal).
Line(text, arg) == [text |-> text, arg |-> arg]

StartupLine == Line("[INFO] Starting PENS-KAIT 2026 C++ Backend...", <<>>)

VersionLineOf(v) == Line("[INFO] OpenCV Version: ", <<"CV_VERSION", v>>)

CameraErrorLine == Line("[ERROR] Could not open camera", <<>>)

InitLine == Line("[INFO] Backend Core Initialized. Waiting for tasks...", <<>>)

ExceptionLineOf(w) == Line("[ERROR] Exception: ", <<"what", w>>)

\* Statements of the try block at which an exception can be raised.
RaisePoints == {"acquire", "banner", "frame", "loop"}

\* Status of "return 0" and of "return 1".
ExitSuccess == 0
ExitFailure == 1

----------------------------------------------------------------------------
(* Initial state: main() has just been entered. *)

Init ==
    /\ pc = [r \in Runs |-> "startup"]
    /\ version \in [Runs -> Versions]
    /\ out = [r \in Runs |-> <<>>]
    /\ err = [r \in Runs |-> <<>>]
    /\ exit = [r \in Runs |-> <<>>]
    /\ camera = [r \in Runs |-> "untried"]
    /\ held = [r \in Runs |-> FALSE]
    /\ exc = [r \in Runs |-> <<>>]
    /\ trace = [r \in Runs |-> <<>>]

----------------------------------------------------------------------------
(* Statements of main(), one action per statement, for run r. *)

Emit(stream, r, line) == [stream EXCEPT ![r] = Append(@, line)]

Log(r, event) == [trace EXCEPT ![r] = Append(@, event)]

Goto(r, label) == [pc EXCEPT ![r] = label]

\* Variant of StartupBanner: the banner also carries the identity of the
\* process that prints it.
StartupBanner_Pid(r) ==
    /\ pc[r] = "startup"
    /\ out' = Emit(out, r, Line("[INFO] Starting PENS-KAIT 2026 C++ Backend...", <<"pid", r>>))
    /\ trace' = Log(r, "startup")
    /\ pc' = Goto(r, "version")
    /\ UNCHANGED <<version, err, exit, camera, held, exc>>

\* Line 6: std::cout << "[INFO] Starting ..." << std::endl;
StartupBanner(r) ==
    /\ pc[r] = "startup"
    /\ out' = Emit(out, r, StartupLine)
    /\ trace' = Log(r, "startup")
    /\ pc' = Goto(r, "version")
    /\ UNCHANGED <<version, err, exit, camera, held, exc>>

\* Variant of VersionLine: the initialization banner is printed here, ahead
\* of the try block, as well.
VersionLine_WithBanner(r) ==
    /\ pc[r] = "version"
    /\ out' = [out EXCEPT ![r] = @ \o <<VersionLineOf(version[r]), InitLine>>]
    /\ trace' = Log(r, "version")
    /\ pc' = Goto(r, "acquire")
    /\ UNCHANGED <<version, err, exit, camera, held, exc>>

\* Line 9: std::cout << "[INFO] OpenCV Version: " << CV_VERSION << std::endl;
\* The next statement is the first of the try block (line 11).
VersionLine(r) ==
    /\ pc[r] = "version"
    /\ out' = Emit(out, r, VersionLineOf(version[r]))
    /\ trace' = Log(r, "version")
    /\ pc' = Goto(r, "acquire")
    /\ UNCHANGED <<version, err, exit, camera, held, exc>>

\* Line 18: cv::VideoCapture cap(0); the constructor returns with the device
\* opened or not opened.
AcquireCamera(r) ==
    /\ pc[r] = "acquire"
    /\ \E opened \in BOOLEAN :
        /\ camera' = [camera EXCEPT ![r] = IF opened THEN "opened" ELSE "failed"]
        /\ held' = [held EXCEPT ![r] = opened]
    /\ trace' = Log(r, "acquire")
    /\ pc' = Goto(r, "check")
    /\ UNCHANGED <<version, out, err, exit, exc>>

\* Variant of CheckOpened: the commented-out "return -1" is live (the process
\* exits with status 255 when the camera did not open).
CheckOpened_ReturnMinus1(r) ==
    /\ pc[r] = "check"
    /\ IF ~held[r]
       THEN /\ err' = Emit(err, r, CameraErrorLine)
            /\ trace' = Log(r, "camerr")
            /\ exit' = [exit EXCEPT ![r] = <<255>>]
            /\ pc' = Goto(r, "done")
       ELSE /\ UNCHANGED <<err, trace, exit>>
            /\ pc' = Goto(r, "banner")
    /\ UNCHANGED <<version, out, camera, held, exc>>

\* Variant of CheckOpened: the test of isOpened() is dropped and the error
\* line is written whatever the outcome.
CheckOpened_Unconditional(r) ==
    /\ pc[r] = "check"
    /\ err' = Emit(err, r, CameraErrorLine)
    /\ trace' = Log(r, "camerr")
    /\ pc' = Goto(r, "banner")
    /\ UNCHANGED <<version, out, exit, camera, held, exc>>

\* Variant of CheckOpened: the initialization banner sits in the else branch,
\* so a failed open goes past it.
CheckOpened_SkipBanner(r) ==
    /\ pc[r] = "check"
    /\ IF ~held[r]
       THEN /\ err' = Emit(err, r, CameraErrorLine)
            /\ trace' = Log(r, "camerr")
            /\ pc' = Goto(r, "frame")
       ELSE /\ UNCHANGED <<err, trace>>
            /\ pc' = Goto(r, "banner")
    /\ UNCHANGED <<version, out, exit, camera, held, exc>>

\* Lines 19-22: if (!cap.isOpened()) { std::cerr << "[ERROR] Could not open
\* camera" << std::endl; /* return -1 is commented out */ }
CheckOpened(r) ==
    /\ pc[r] = "check"
    /\ IF ~held[r]
       THEN /\ err' = Emit(err, r, CameraErrorLine)
            /\ trace' = Log(r, "camerr")
       ELSE UNCHANGED <<err, trace>>
    /\ pc' = Goto(r, "banner")
    /\ UNCHANGED <<version, out, exit, camera, held, exc>>

\* Variant of InitBanner: the statement is missing.
InitBanner_Silent(r) ==
    /\ pc[r] = "banner"
    /\ pc' = Goto(r, "frame")
    /\ UNCHANGED <<version, out, err, exit, camera, held, exc, trace>>

\* Line 24: std::cout << "[INFO] Backend Core Initialized. ..." << std::endl;
InitBanner(r) ==
    /\ pc[r] = "banner"
    /\ out' = Emit(out, r, InitLine)
    /\ trace' = Log(r, "banner")
    /\ pc' = Goto(r, "frame")
    /\ UNCHANGED <<version, err, exit, camera, held, exc>>

\* Line 26: cv::Mat frame; declared, never populated or read.
DeclareFrame(r) ==
    /\ pc[r] = "frame"
    /\ trace' = Log(r, "frame")
    /\ pc' = Goto(r, "loop")
    /\ UNCHANGED <<version, out, err, exit, camera, held, exc>>

\* Variant of LoopPass: the break is missing; the loop goes round again.
LoopPass_NoBreak(r) ==
    /\ pc[r] = "loop"
    /\ trace' = IF Count(trace[r], "loop") < 2 THEN Log(r, "loop") ELSE trace
    /\ pc' = Goto(r, "loop")
    /\ UNCHANGED <<version, out, err, exit, camera, held, exc>>

\* Lines 27-39: while (true) { break; }  One pass: the body's only live
\* statement is the break; cap >> frame is commented out.
LoopPass(r) ==
    /\ pc[r] = "loop"
    /\ trace' = Log(r, "loop")
    /\ pc' = Goto(r, "leave")
    /\ UNCHANGED <<version, out, err, exit, camera, held, exc>>

\* Variant of LeaveTry: the capture object outlives the block (allocated
\* with new and never deleted), the device stays open.
LeaveTry_NoRelease(r) ==
    /\ pc[r] = "leave"
    /\ pc' = Goto(r, "return")
    /\ UNCHANGED <<version, out, err, exit, camera, held, exc, trace>>

\* Line 41, the closing brace of the try block: frame and cap go out of
\* scope; ~VideoCapture releases the device.
LeaveTry(r) ==
    /\ pc[r] = "leave"
    /\ held' = [held EXCEPT ![r] = FALSE]
    /\ pc' = Goto(r, "return")
    /\ UNCHANGED <<version, out, err, exit, camera, exc, trace>>

\* Line 46: return 0;
ReturnSuccess(r) ==
    /\ pc[r] = "return"
    /\ exit' = [exit EXCEPT ![r] = <<ExitSuccess>>]
    /\ pc' = Goto(r, "done")
    /\ UNCHANGED <<version, out, err, camera, held, exc, trace>>

\* A statement of the try block throws a std::exception with text w instead
\* of completing.  The stack is unwound to the handler of line 41: the
\* objects of the try block constructed so far are destroyed (cap, once its
\* constructor has returned), and no later statement of the block runs.
Raises(r) ==
    /\ pc[r] \in RaisePoints
    /\ \E w \in Whats : exc' = [exc EXCEPT ![r] = <<[at |-> pc[r], what |-> w]>>]
    /\ held' = [held EXCEPT ![r] = FALSE]
    /\ trace' = Log(r, "throw")
    /\ pc' = Goto(r, "catch")
    /\ UNCHANGED <<version, out, err, exit, camera>>

\* Variant of CatchHandler: the description is not written.
CatchHandler_NoReport(r) ==
    /\ pc[r] = "catch"
    /\ trace' = Log(r, "catch")
    /\ exit' = [exit EXCEPT ![r] = <<ExitFailure>>]
    /\ pc' = Goto(r, "done")
    /\ UNCHANGED <<version, out, err, camera, held, exc>>

\* Variant of CatchHandler: the handler falls through to return 0.
CatchHandler_Return0(r) ==
    /\ pc[r] = "catch"
    /\ err' = Emit(err, r, ExceptionLineOf(exc[r][1].what))
    /\ trace' = Log(r, "catch")
    /\ exit' = [exit EXCEPT ![r] = <<ExitSuccess>>]
    /\ pc' = Goto(r, "done")
    /\ UNCHANGED <<version, out, camera, held, exc>>

\* Lines 41-44: catch (const std::exception& e) { std::cerr <<
\* "[ERROR] Exception: " << e.what() << std::endl; return 1; }
CatchHandler(r) ==
    /\ pc[r] = "catch"
    /\ err' = Emit(err, r, ExceptionLineOf(exc[r][1].what))
    /\ trace' = Log(r, "catch")
    /\ exit' = [exit EXCEPT ![r] = <<ExitFailure>>]
    /\ pc' = Goto(r, "done")
    /\ UNCHANGED <<version, out, camera, held, exc>>

RunStep(r) ==
    \/ StartupBanner(r)
    \/ VersionLine(r)
    \/ AcquireCamera(r)
    \/ CheckOpened(r)
    \/ InitBanner(r)
    \/ DeclareFrame(r)
    \/ LoopPass(r)
    \/ LeaveTry(r)
    \/ ReturnSuccess(r)
    \/ Raises(r)
    \/ CatchHandler(r)

Next == \E r \in Runs : RunStep(r)

Spec == Init /\ [][Next]_vars

\* Each execution is a process of its own that the operating system keeps
\* scheduling: a run that can take a step eventually takes one.
FairSpec == Spec /\ \A r \in Runs : WF_vars(RunStep(r))

----------------------------------------------------------------------------
(* Vocabulary of the properties *)

Done(r) == pc[r] = "done"

\* An exception was raised in run r (and, once Done, caught).
Raised(r) == exc[r] # <<>>

Caught(r) == "catch" \in Range(trace[r])

\* Position of each statement in the text of main().
Rank ==
    [startup |-> 1, version |-> 2, acquire |-> 3, camerr |-> 4, banner |-> 5,
     frame |-> 6, loop |-> 7, throw |-> 8, catch |-> 9]

\* The statements of the try block.
GuardedSteps == {"acquire", "camerr", "banner", "frame", "loop"}

ExceptionLines(r) == {i \in 1..Len(err[r]) : err[r][i].text = "[ERROR] Exception: "}

TypeOK ==
    /\ pc \in [Runs -> {"startup", "version", "acquire", "check", "banner", "frame",
                        "loop", "leave", "return", "catch", "done"}]
    /\ version \in [Runs -> Versions]
    /\ camera \in [Runs -> {"untried", "opened", "failed"}]
    /\ held \in [Runs -> BOOLEAN]
    /\ \A r \in Runs : Len(exit[r]) <= 1 /\ Len(exc[r]) <= 1

----------------------------------------------------------------------------
\* C1: in every finished run where the camera acquisition completed without
\* opening the device and no exception was raised in the try block, the
\* camera-error line is on the error stream and the exit status is 0.
C1_CameraFailureIsLoggedAndIgnored ==
    \A r \in Runs :
        (Done(r) /\ camera[r] = "failed" /\ ~Raised(r))
            => /\ CameraErrorLine \in Range(err[r])
               /\ exit[r] = <<0>>

C1_Witness ==
    \E r \in Runs :
        Done(r) /\ camera[r] = "failed" /\ ~Raised(r) /\ "camerr" \in Range(trace[r])

\* C2: in every finished run without a caught exception, camera opened or
\* not, standard output is exactly the startup banner, the version line and
\* the initialization-complete banner, in this order.
C2_ThreeLinesOnSuccess ==
    \A r \in Runs :
        (Done(r) /\ ~Caught(r))
            => out[r] = <<StartupLine, VersionLineOf(version[r]), InitLine>>

C2_Witness ==
    \E r1, r2 \in Runs :
        /\ Done(r1) /\ ~Caught(r1) /\ camera[r1] = "opened"
        /\ Done(r2) /\ ~Caught(r2) /\ camera[r2] = "failed"
        /\ Len(out[r1]) = 3 /\ Len(out[r2]) = 3

\* C3: an exception raised at a statement of the try block is caught exactly
\* once, its description is the line written to the error stream by the
\* handler, the exit status is 1, and no statement of the try block after
\* the raising one is executed (after the throw only the handler runs).
C3_ExceptionCaughtOnce ==
    \A r \in Runs :
        /\ Raised(r) =>
            /\ Count(trace[r], "throw") = 1
            /\ \A e \in Range(trace[r]) :
                   e \in GuardedSteps => Rank[e] < Rank[exc[r][1].at]
            /\ \A i \in 1..Len(trace[r]) :
                   i > IndexOf(trace[r], "throw") => trace[r][i] = "catch"
            /\ pc[r] \in {"catch", "done"}
        /\ (Raised(r) /\ Done(r)) =>
            /\ Count(trace[r], "catch") = 1
            /\ err[r] # <<>>
            /\ err[r][Len(err[r])] = ExceptionLineOf(exc[r][1].what)
            /\ exit[r] = <<1>>

C3_Witness ==
    \E r1, r2 \in Runs :
        /\ Done(r1) /\ Raised(r1) /\ exc[r1][1].at = "acquire"
        /\ Done(r2) /\ Raised(r2) /\ exc[r2][1].at = "frame"
        /\ exc[r1][1].what # exc[r2][1].what

\* C4: every run eventually terminates, whatever the camera outcome and
\* whether or not an exception is raised; the loop is passed through at most
\* once, and a terminated run stays terminated.
C4_EveryRunTerminates ==
    /\ \A r \in Runs : <>(pc[r] = "done")
    /\ [](\A r \in Runs : Count(trace[r], "loop") <= 1)
    /\ [](\A r \in Runs : (pc[r] \in {"leave", "return"}) => Count(trace[r], "loop") = 1)

C4_Witness ==
    \E r1, r2 \in Runs :
        /\ Done(r1) /\ Count(trace[r1], "loop") = 1 /\ camera[r1] = "failed"
        /\ Done(r2) /\ Count(trace[r2], "loop") = 1 /\ camera[r2] = "opened"

\* C5: at termination the exit status is 1 exactly when an exception was
\* caught and 0 otherwise; no other status is produced, and two runs that
\* agree on whether an exception was caught agree on the status whatever
\* their camera outcomes.
C5_ExitStatus ==
    /\ \A r \in Runs :
        /\ Done(r) <=> exit[r] # <<>>
        /\ Done(r) =>
            /\ exit[r] \in {<<0>>, <<1>>}
            /\ exit[r] = <<1>> <=> Caught(r)
            /\ exit[r] = <<0>> <=> ~Caught(r)
    /\ \A r1, r2 \in Runs :
        (Done(r1) /\ Done(r2) /\ (Caught(r1) <=> Caught(r2))) => exit[r1] = exit[r2]

C5_Witness ==
    \E r1, r2 \in Runs :
        /\ Done(r1) /\ Done(r2)
        /\ camera[r1] = "failed" /\ camera[r2] = "failed"
        /\ exit[r1] = <<1>> /\ exit[r2] = <<0>>

\* C6: at termination the error stream holds the camera-error line once if
\* the acquisition completed without opening the device and not at all
\* otherwise, the exception line once if an exception was caught and not at
\* all otherwise, and nothing else.
C6_ErrorStreamContent ==
    \A r \in Runs :
        Done(r) =>
            /\ Count(err[r], CameraErrorLine) = (IF camera[r] = "failed" THEN 1 ELSE 0)
            /\ Cardinality(ExceptionLines(r)) = (IF Caught(r) THEN 1 ELSE 0)
            /\ Len(err[r]) = Count(err[r], CameraErrorLine) + Cardinality(ExceptionLines(r))
            /\ \A i \in ExceptionLines(r) : err[r][i] = ExceptionLineOf(exc[r][1].what)

C6_Witness ==
    \E r1, r2 \in Runs :
        /\ Done(r1) /\ camera[r1] = "failed" /\ Caught(r1) /\ Len(err[r1]) = 2
        /\ Done(r2) /\ camera[r2] = "opened" /\ ~Caught(r2) /\ err[r2] = <<>>

\* Two finished runs with the same camera outcome, the same fault (raising
\* statement and description, or none) and the same library version have the
\* same standard output, the same error stream and the same exit status.
SameEnvironment(r1, r2) ==
    /\ camera[r1] = camera[r2]
    /\ exc[r1] = exc[r2]
    /\ version[r1] = version[r2]

Deterministic ==
    \A r1, r2 \in Runs :
        (Done(r1) /\ Done(r2) /\ SameEnvironment(r1, r2))
            => out[r1] = out[r2] /\ err[r1] = err[r2] /\ exit[r1] = exit[r2]

\* The lines a run has written that carry a value coming from outside the
\* program text.
ExternalLines(r) == {l \in Range(out[r]) \cup Range(err[r]) : l.arg # <<>>}

\* C7 (as stated): the output is a deterministic function of camera outcome,
\* fault and library version, and the only output text that comes from
\* outside the program is the version string in the version line.
C7_OnlyVersionIsExternal ==
    /\ Deterministic
    /\ \A r \in Runs : ExternalLines(r) \subseteq {VersionLineOf(version[r])}

\* C7 (amended): the output is a deterministic function of camera outcome,
\* fault and library version, and the only output text that comes from
\* outside the program is the version string in the version line and, when
\* an exception was caught, its description in the exception line.
C7_VersionAndDescriptionAreExternal ==
    /\ Deterministic
    /\ \A r \in Runs :
        ExternalLines(r) \subseteq
            ({VersionLineOf(version[r])}
                \cup {ExceptionLineOf(exc[r][i].what) : i \in 1..Len(exc[r])})

C7_Witness ==
    \E r1, r2 \in Runs :
        /\ r1 # r2 /\ Done(r1) /\ Done(r2) /\ SameEnvironment(r1, r2)
        /\ Caught(r1) /\ camera[r1] = "failed"
        /\ Cardinality(ExternalLines(r1)) = 2

\* C8: the statements run in the order of the text: startup banner, version
\* line, the single acquisition, the camera-error line (only after a failed
\* open), the initialization banner, the frame declaration, one pass of the
\* loop; the banner follows a failed open as it follows a successful one.
FullTrace(r) ==
    <<"startup", "version", "acquire">>
        \o (IF camera[r] = "failed" THEN <<"camerr">> ELSE <<>>)
        \o <<"banner", "frame", "loop">>

C8_FixedOrder ==
    \A r \in Runs :
        /\ \A i, j \in 1..Len(trace[r]) : i < j => Rank[trace[r][i]] < Rank[trace[r][j]]
        /\ "camerr" \in Range(trace[r]) => camera[r] = "failed"
        /\ ("banner" \in Range(trace[r]) /\ camera[r] = "failed")
              => "camerr" \in Range(trace[r])
        /\ (Done(r) /\ ~Raised(r)) => trace[r] = FullTrace(r)
        /\ pc[r] = "frame" => "banner" \in Range(trace[r])

C8_Witness ==
    \E r1, r2 \in Runs :
        /\ Done(r1) /\ ~Raised(r1) /\ camera[r1] = "failed" /\ Len(trace[r1]) = 7
        /\ Done(r2) /\ ~Raised(r2) /\ camera[r2] = "opened" /\ Len(trace[r2]) = 6

\* C9: the camera is acquired at most once per run, the device is held only
\* after a successful open, it is never read from, and it is no longer held
\* once the run has terminated, with status 0 or with status 1.
C9_CameraLifecycle ==
    \A r \in Runs :
        /\ Count(trace[r], "acquire") <= 1
        /\ "read" \notin Range(trace[r])
        /\ held[r] => camera[r] = "opened"
        /\ Done(r) => ~held[r]

C9_Witness ==
    \E r1, r2 \in Runs :
        /\ Done(r1) /\ camera[r1] = "opened" /\ exit[r1] = <<0>> /\ ~held[r1]
        /\ Done(r2) /\ camera[r2] = "opened" /\ exit[r2] = <<1>> /\ ~held[r2]

\* C10: when the try block is entered standard output is the startup banner
\* followed by the version line and the error stream is empty; so a run that
\* ends with status 1 has standard output beginning with these two lines,
\* both written before any line of the error stream, and it has the
\* initialization banner only if the exception was raised after the
\* acquisition had completed.
C10_BannersPrecedeGuardedRegion ==
    \A r \in Runs :
        /\ pc[r] = "acquire" =>
            /\ out[r] = <<StartupLine, VersionLineOf(version[r])>>
            /\ err[r] = <<>>
        /\ (Done(r) /\ exit[r] = <<1>>) =>
            /\ Len(out[r]) >= 2
            /\ out[r][1] = StartupLine
            /\ out[r][2] = VersionLineOf(version[r])
            /\ \A i \in 1..Len(trace[r]) :
                   trace[r][i] \in {"camerr", "catch"}
                       => /\ IndexOf(trace[r], "startup") \in 1..(i-1)
                          /\ IndexOf(trace[r], "version") \in 1..(i-1)
            /\ InitLine \in Range(out[r])
                   => camera[r] # "untried" /\ exc[r][1].at # "acquire"

C10_Witness ==
    \E r1, r2 \in Runs :
        /\ Done(r1) /\ exit[r1] = <<1>> /\ InitLine \in Range(out[r1])
        /\ Done(r2) /\ exit[r2] = <<1>> /\ InitLine \notin Range(out[r2])
        /\ err[r1] # <<>> /\ err[r2] # <<>>

=============================================================================
